---- MODULE Spec2Model ----
(***************************************************************************)
(* A model of the request pipeline of @nlfmt/rapid.                        *)
(*                                                                         *)
(*   Spec       one route registered with Rapid._handler (src/src/index.ts)*)
(*              and one request driven through the async route callback,   *)
(*              one step per await: params validation, body/query/cookies  *)
(*              validation, the middleware loop, the handler.              *)
(*   SpecRoutes route registration and subroute mounting on a small set of *)
(*              Rapid instances, with the transport's first-match dispatch.*)
(*   SpecLogger the sample routes of src/src/test.ts, one request after    *)
(*              the other, while setErrorLogger replaces the logger.       *)
(*   SpecConcurrent                                                        *)
(*              two route callbacks in flight, interleaved at every await. *)
(*   SpecLive   the sample routes and requests under the event loop's      *)
(*              fairness: a callback whose await has settled is resumed.   *)
(*   SpecCombine                                                           *)
(*              middleware(m1, ..., mn) as one step next to m1, ..., mn as *)
(*              n steps, for every argument list within the bounds.        *)
(*   SpecErrors defineErrors applied to every declaration object within    *)
(*              the bounds.                                                *)
(*   SpecBuilder, SpecRebuild                                              *)
(*              the builder API (src/unnamed/part_004): a RouteBuilder's   *)
(*              methods, applyRoute and the callback it registers; in      *)
(*              SpecRebuild builder methods are called after the route is  *)
(*              registered too.                                            *)
(***************************************************************************)
EXTENDS Integers, Sequences, FiniteSets, TLC

\* ------------------------------------------------------------------ bounds

\* Largest number of middleware steps passed at registration.
MaxMw == 2
\* Largest number of routes and mounts registered over all routers.
MaxLayers == 3
\* Largest number of entries of the object passed to defineErrors.
MaxErrors == 2
\* Largest number of functions passed to middleware(...).
MaxFns == 2
\* Largest number of use(...) calls on a RouteBuilder.
MaxUse == 2

\* --------------------------------------------------------------- vocabulary

\* JavaScript's undefined.
Undefined == "undefined"

\* The channels _handler validates with the rest of the validator object.
Channels == {"body", "query", "cookies"}
\* The named segments of the registered path.
ParamNames == {"id", "slug"}
\* The keys of the context built at index.ts:251.
BaseKeys == {"req", "body", "query", "params", "cookies"}

\* Raw values the transport supplies: one a schema accepts, one it rejects.
RawValues == {"ok", "bad"}

\* The schema declared for a key (one opaque schema object per key).
SchemaOf(key) ==
  CASE key = "body" -> "zBody"
    [] key = "query" -> "zQuery"
    [] key = "cookies" -> "zCookies"
    [] key = "id" -> "zId"
    [] key = "slug" -> "zSlug"

\* The validator's output for an accepted value: the schema's parsed data,
\* which is not the raw value (a schema may coerce, strip or default).
Parsed(schema, v) ==
  CASE schema = "zBody" -> "body:parsed"
    [] schema = "zQuery" -> "query:parsed"
    [] schema = "zCookies" -> "cookies:parsed"
    [] schema = "zId" -> "id:parsed"
    [] schema = "zSlug" -> "slug:parsed"

\* The validator's raw issue list for a rejected value.
Issues(schema, v) ==
  CASE schema = "zBody" -> "body:issues"
    [] schema = "zQuery" -> "query:issues"
    [] schema = "zCookies" -> "cookies:issues"
    [] schema = "zId" -> "id:issues"
    [] schema = "zSlug" -> "slug:issues"

\* validate(schema, value) of @typeschema/main, when it returns.
validate(schema, v) ==
  IF v = "ok"
    THEN [success |-> TRUE, data |-> Parsed(schema, v)]
    ELSE [success |-> FALSE, issues |-> Issues(schema, v)]

\* --------------------------------------------------------------- the errors

\* new RapidError(error): the constructor copies the four fields.
RapidError(error) ==
  [cls |-> "RapidError", name |-> error.name, code |-> error.code,
   message |-> error.message, cause |-> error.cause]

\* A test that takes no raised value for a RapidError.
IsRapidErrorNever(err) == FALSE

\* A test by shape: whatever carries a code passes for a domain error.
IsRapidErrorByShape(err) == "code" \in DOMAIN err

\* err instanceof RapidError
IsRapidError(err) == err.cls = "RapidError"

\* Error definitions a middleware step or handler constructs a RapidError from.
ErrorDefs ==
  { [name |-> "NOT_FOUND", code |-> 404, message |-> "User not found", cause |-> Undefined],
    [name |-> "TEAPOT", code |-> 418, message |-> Undefined, cause |-> "leaf"] }

\* Raised values that are no RapidError: a runtime Error, and a plain object
\* with name, code and message such as an entry of defineErrors' result.
OtherRaised ==
  { [cls |-> "Error", message |-> "db down", stack |-> "at db.ts:1"],
    [cls |-> "Object", name |-> "NOT_FOUND", code |-> 404, message |-> "User not found"] }

\* The wire form of an error object: its own fields that are not undefined
\* (cls stands for the prototype, which is not serialised; code is a number).
ToJSON(error) ==
  LET keys == {k \in DOMAIN error \ {"cls"} : k = "code" \/ error[k] # Undefined}
  IN  [k \in keys |-> error[k]]

\* The message templates of index.ts:271 and index.ts:283.
ParamMessage(key) ==
  CASE key = "id" -> "Invalid route param id"
    [] key = "slug" -> "Invalid route param slug"

InputMessage(key) ==
  CASE key = "body" -> "Invalid body"
    [] key = "query" -> "Invalid query"
    [] key = "cookies" -> "Invalid cookies"

\* A params failure reported as a bad request.
ParamErrorBadRequest(err) ==
  [code |-> 400, name |-> "Bad Request", message |-> ParamMessage(err.key),
   cause |-> err.issues]

\* An input failure reported without its issue list.
InputErrorNoCause(err) ==
  [code |-> 400, name |-> "Bad Request", message |-> InputMessage(err.key),
   cause |-> Undefined]

\* The error objects _handler builds itself.
ParamError(err) ==
  [code |-> 404, name |-> "Not Found", message |-> ParamMessage(err.key),
   cause |-> err.issues]

InputError(err) ==
  [code |-> 400, name |-> "Bad Request", message |-> InputMessage(err.key),
   cause |-> err.issues]

InternalError ==
  [code |-> 500, name |-> "Internal Server Error",
   message |-> "An error occurred while processing the request"]

MiddlewareLogMessage ==
  "An unexpected middleware error occurred while processing the request"

HandlerLogMessage == "An error occurred while processing the request"

\* ------------------------------------------------------------------- state

VARIABLES
  route,    \* what _handler captured at registration: validators, middleware
  raw,      \* the request as the transport supplied it
  pc,       \* where the route callback is
  idx,      \* the index of the loop the callback is in
  ctx,      \* the context object of the request
  calls,    \* every validator, middleware step and handler invoked, in order
  sent,     \* the responses written to res
  logged,   \* the calls of RapidImpl.errorLogger
  stack,    \* the layers of each Rapid instance's router, in registration order
  lastOp,   \* the last registration or subroute call, with its arguments
  currentLogger, \* RapidStatic.errorLogger, the process-wide logger
  lastSet,  \* the last setErrorLogger call: its argument, and where the
            \* callback of the current request was when it was made
  other,    \* a second route callback in flight, while it is not running
  defs,     \* a defineErrors call: its argument, the loop index, its result
  combo,    \* a middleware(...) call: its arguments, and the two runs of the
            \* middleware loop that are compared
  builder,  \* the fields of a RouteBuilder (the builder API)
  registered, \* the routes registered through the RouteBuilder
  bdata     \* the data object of a RouteBuilder route callback

rvars == <<stack, lastOp>>
lvars == <<currentLogger, lastSet>>
pvars == <<defs, combo>>
bvars == <<builder, registered, bdata>>
vars == <<route, raw, pc, idx, ctx, calls, sent, logged, stack, lastOp,
          currentLogger, lastSet, other, defs, combo, builder, registered, bdata>>

\* ------------------------------------------------- registration (_handler)

\* An object without own keys.
EmptyObject == [k \in {} |-> Undefined]

\* The validator objects over a set of keys: each lists some of the keys, in
\* any order, each once, with its schema; a key of `optional` may be listed
\* with undefined in place of a schema.
ValidatorObjects(keys, optional) ==
  LET Entry == {[key |-> k, schema |-> SchemaOf(k)] : k \in keys}
               \cup {[key |-> k, schema |-> Undefined] : k \in optional}
      Lists == UNION {[1..n -> Entry] : n \in 0..Cardinality(keys)}
  IN  {l \in Lists : \A i, j \in 1..Len(l) : i # j => l[i].key # l[j].key}

\* Before any route is registered.
NoRoute ==
  [paramsDeclared |-> FALSE, params |-> <<>>, validators |-> <<>>, nmw |-> 0]

\* _handler(method, path, [def], ...middleware, handler): the rest destructuring
\* of index.ts:241-245 takes params out of the validator object and keeps the
\* other keys in the order the object lists them; the middleware are the
\* arguments between the validator object and the handler.
Register ==
  /\ pc = "idle"
  /\ \E paramsDeclared \in BOOLEAN, nmw \in 0..MaxMw :
     \E params \in (IF paramsDeclared THEN ValidatorObjects(ParamNames, {}) ELSE {<<>>}),
        validators \in ValidatorObjects(Channels, {"cookies"}) :
       route' = [paramsDeclared |-> paramsDeclared, params |-> params,
                 validators |-> validators, nmw |-> nmw]
  /\ pc' = "ready"
  /\ UNCHANGED <<raw, idx, ctx, calls, sent, logged, rvars, lvars, other, pvars, bvars>>

\* The routes of test.ts:33-79 in the model's terms: one with a params and a
\* body validator and a middleware step, one with two middleware steps only,
\* one with a query and a cookies validator and no middleware.
SampleRoutes ==
  { [paramsDeclared |-> TRUE,
     params |-> <<[key |-> "id", schema |-> SchemaOf("id")]>>,
     validators |-> <<[key |-> "body", schema |-> SchemaOf("body")]>>,
     nmw |-> 1],
    [paramsDeclared |-> FALSE, params |-> <<>>, validators |-> <<>>, nmw |-> 2],
    [paramsDeclared |-> FALSE, params |-> <<>>,
     validators |-> <<[key |-> "query", schema |-> SchemaOf("query")],
                      [key |-> "cookies", schema |-> SchemaOf("cookies")]>>,
     nmw |-> 0] }

\* The registration of one of the sample routes.
RegisterSample ==
  /\ Register
  /\ route' \in SampleRoutes

\* ---------------------------------------------------- the route callback

\* The transport's request before one arrives.
NoRequest ==
  [body |-> Undefined, query |-> Undefined, cookies |-> Undefined,
   params |-> [n \in ParamNames |-> Undefined]]

\* The requests the transport may dispatch to the route.
Requests ==
  [body : RawValues, query : RawValues, cookies : RawValues,
   params : [ParamNames -> RawValues]]

\* A context that starts with null for body, query and cookies.
InitialContextNull(req) ==
  [k \in BaseKeys |-> IF k = "req" THEN "req" ELSE IF k = "params" THEN req[k] ELSE "null"]

\* index.ts:251-257: the context starts as the transport's own values.
InitialContext(req) ==
  [k \in BaseKeys |-> IF k = "req" THEN "req" ELSE req[k]]

\* A merge that forgets the returned data.
ObjectAssignDropsSource(target, source) == target

\* Object.assign(target, source); a source that is undefined adds nothing.
ObjectAssign(target, source) ==
  [k \in DOMAIN target \cup DOMAIN source |->
     IF k \in DOMAIN source THEN source[k] ELSE target[k]]

\* output[key] = value
SetKey(output, key, value) ==
  [k \in DOMAIN output \cup {key} |-> IF k = key THEN value ELSE output[k]]

\* An error sent without res.status, so with the default status.
sendErrorDefaultStatus(res, error) ==
  Append(res, [status |-> 200, body |-> ToJSON(error)])

\* An error always sent with status 500, whatever its code.
sendErrorStatus500(res, error) ==
  Append(res, [status |-> 500, body |-> ToJSON(error)])

\* sendError(res, error): res.status(error.code).send(error)
sendError(res, error) ==
  Append(res, [status |-> error.code, body |-> ToJSON(error)])

\* res.send(response), with the default status
sendResponse(res, response) ==
  Append(res, [status |-> 200, body |-> response])

\* A handler that never reaches the logger.
errorLoggerSkipped(log, message, err) == log

\* The logger functions of the program: the default of index.ts:172-174, the
\* one test.ts:23-25 installs, and one that itself raises.
Loggers == {"console", "custom", "raising"}

\* The logger function raises instead of returning.
LoggerRaises(logger) == logger = "raising"

\* RapidImpl.errorLogger(message, err): a call of the logger that is in the
\* static field at this moment.
errorLogger(log, message, err) ==
  Append(log, [logger |-> currentLogger, message |-> message, err |-> err])

\* A setErrorLogger that leaves the field as it was.
setErrorLoggerIgnored(current, logger) == current

\* setErrorLogger(logger): this.errorLogger = logger
setErrorLogger(current, logger) == logger

\* Before any setErrorLogger call the field holds the default logger.
NoSet == [logger |-> "console", at |-> "idle"]

\* Rapid.setErrorLogger(logger), called by the application at any time.
SetErrorLogger ==
  /\ \E logger \in Loggers :
       /\ currentLogger' = setErrorLogger(currentLogger, logger)
       /\ lastSet' = [logger |-> logger, at |-> pc]
  /\ UNCHANGED <<route, raw, pc, idx, ctx, calls, sent, logged, rvars, other, pvars, bvars>>

\* One entry of the invocation log: the stage, the key or index it was invoked
\* for, the context it was given, and how it ended (kind is "success",
\* "failure", "return" or "raise"; value is what it produced or raised).
Call(stage, key, i, c, kind, value) ==
  [stage |-> stage, key |-> key, idx |-> i, ctx |-> c, kind |-> kind, value |-> value]

\* A for..in that walked the keys from the last listed to the first.
ForInEntryReversed(schemas, i) == schemas[Len(schemas) + 1 - i]

\* for (const key in schemas): the i-th entry in the order the object lists them.
ForInEntry(schemas, i) == schemas[i]

\* The transport invokes the callback registered at index.ts:250.
Receive ==
  /\ pc = "ready"
  /\ \E req \in Requests :
       /\ raw' = req
       /\ ctx' = InitialContext(req)
  /\ pc' = IF route.paramsDeclared THEN "params" ELSE "inputs"
  /\ idx' = 1
  /\ UNCHANGED <<route, calls, sent, logged, rvars, lvars, other, pvars, bvars>>

\* One iteration of validateToOutput(paramsValidator, req.params, context.params)
\* (index.ts:224-235, called at 261), or the return from it (267-275).
\* context.params is req.params itself, so the input is read from the context.
ValidateParams ==
  /\ pc = "params"
  /\ IF idx > Len(route.params)
       THEN /\ pc' = "inputs"
            /\ idx' = 1
            /\ UNCHANGED <<ctx, calls, sent>>
       ELSE LET e == ForInEntry(route.params, idx) IN
            IF e.schema = Undefined
              THEN /\ idx' = idx + 1
                   /\ UNCHANGED <<pc, ctx, calls, sent>>
              ELSE \/ LET result == validate(e.schema, ctx["params"][e.key]) IN
                      IF result.success
                        THEN /\ calls' = Append(calls,
                                  Call("params", e.key, idx, ctx, "success", result.data))
                             /\ ctx' = SetKey(ctx, "params",
                                         SetKey(ctx["params"], e.key, result.data))
                             /\ idx' = idx + 1
                             /\ UNCHANGED <<pc, sent>>
                        ELSE /\ calls' = Append(calls,
                                  Call("params", e.key, idx, ctx, "failure", result.issues))
                             /\ sent' = sendError(sent,
                                          ParamError([key |-> e.key, issues |-> result.issues]))
                             /\ pc' = "done"
                             /\ UNCHANGED <<idx, ctx>>
                   \/ \* validate rejects: nothing in the callback catches it
                      /\ calls' = Append(calls,
                           Call("params", e.key, idx, ctx, "raise", "validator error"))
                      /\ pc' = "escaped"
                      /\ UNCHANGED <<idx, ctx, sent>>
  /\ UNCHANGED <<route, raw, logged, rvars, lvars, other, pvars, bvars>>

\* The same without the return in front of sendError: the callback goes on to
\* the middleware after the 400.
ValidateInputsNoReturn ==
  /\ pc = "inputs"
  /\ IF idx > Len(route.validators)
       THEN /\ pc' = "mw"
            /\ idx' = 1
            /\ UNCHANGED <<ctx, calls, sent>>
       ELSE LET e == ForInEntry(route.validators, idx) IN
            IF e.schema = Undefined
              THEN /\ idx' = idx + 1
                   /\ UNCHANGED <<pc, ctx, calls, sent>>
              ELSE \/ LET result == validate(e.schema, raw[e.key]) IN
                      IF result.success
                        THEN /\ calls' = Append(calls,
                                  Call("inputs", e.key, idx, ctx, "success", result.data))
                             /\ ctx' = SetKey(ctx, e.key, result.data)
                             /\ idx' = idx + 1
                             /\ UNCHANGED <<pc, sent>>
                        ELSE /\ calls' = Append(calls,
                                  Call("inputs", e.key, idx, ctx, "failure", result.issues))
                             /\ sent' = sendError(sent,
                                          InputError([key |-> e.key, issues |-> result.issues]))
                             /\ pc' = "mw"
                             /\ idx' = 1
                             /\ UNCHANGED ctx
                   \/ \* validate rejects: nothing in the callback catches it
                      /\ calls' = Append(calls,
                           Call("inputs", e.key, idx, ctx, "raise", "validator error"))
                      /\ pc' = "escaped"
                      /\ UNCHANGED <<idx, ctx, sent>>
  /\ UNCHANGED <<route, raw, logged, rvars, lvars, other, pvars, bvars>>

\* One iteration of validateToOutput(validators, req, context) (index.ts:224-235,
\* called at 278), or the return from it (280-285).
ValidateInputs ==
  /\ pc = "inputs"
  /\ IF idx > Len(route.validators)
       THEN /\ pc' = "mw"
            /\ idx' = 1
            /\ UNCHANGED <<ctx, calls, sent>>
       ELSE LET e == ForInEntry(route.validators, idx) IN
            IF e.schema = Undefined
              THEN /\ idx' = idx + 1
                   /\ UNCHANGED <<pc, ctx, calls, sent>>
              ELSE \/ LET result == validate(e.schema, raw[e.key]) IN
                      IF result.success
                        THEN /\ calls' = Append(calls,
                                  Call("inputs", e.key, idx, ctx, "success", result.data))
                             /\ ctx' = SetKey(ctx, e.key, result.data)
                             /\ idx' = idx + 1
                             /\ UNCHANGED <<pc, sent>>
                        ELSE /\ calls' = Append(calls,
                                  Call("inputs", e.key, idx, ctx, "failure", result.issues))
                             /\ sent' = sendError(sent,
                                          InputError([key |-> e.key, issues |-> result.issues]))
                             /\ pc' = "done"
                             /\ UNCHANGED <<idx, ctx>>
                   \/ \* validate rejects: nothing in the callback catches it
                      /\ calls' = Append(calls,
                           Call("inputs", e.key, idx, ctx, "raise", "validator error"))
                      /\ pc' = "escaped"
                      /\ UNCHANGED <<idx, ctx, sent>>
  /\ UNCHANGED <<route, raw, logged, rvars, lvars, other, pvars, bvars>>

\* The value step i puts under each key it returns.
MwValue(i) == <<"m1", "m2", "m3", "m4">>[i]

\* The key sets step i may return: none (it returns undefined), the key a
\* (which an earlier step may have returned too), and for the first step the
\* base key body, for a later step the key b.
MwKeySets(i) == {{}, {"a"}, IF i = 1 THEN {"body"} ELSE {"b"}}

\* What step i may return (or it raises: see RunMiddleware).
MwReturns(i) ==
  {[k \in ks |-> MwValue(i)] : ks \in MwKeySets(i)}

Raised == {RapidError(d) : d \in ErrorDefs} \cup OtherRaised

\* A loop that stops after its first step.
LoopDoneAfterFirst(i, n) == i > 1

\* for (const m of middleware): the loop is done once every step was taken.
LoopDone(i, n) == i > n

\* One iteration of the middleware loop (index.ts:288-305), or its end.
RunMiddleware ==
  /\ pc = "mw"
  /\ IF LoopDone(idx, route.nmw)
       THEN /\ pc' = "handler"
            /\ UNCHANGED <<idx, ctx, calls, sent, logged>>
       ELSE \/ \E data \in MwReturns(idx) :
                 /\ calls' = Append(calls, Call("mw", "", idx, ctx, "return", data))
                 /\ ctx' = ObjectAssign(ctx, data)
                 /\ idx' = idx + 1
                 /\ UNCHANGED <<pc, sent, logged>>
            \/ \E err \in Raised :
                 /\ calls' = Append(calls, Call("mw", "", idx, ctx, "raise", err))
                 /\ IF IsRapidError(err)
                      THEN /\ sent' = sendError(sent, err)
                           /\ pc' = "done"
                           /\ UNCHANGED logged
                      ELSE /\ logged' = errorLogger(logged, MiddlewareLogMessage, err)
                           /\ IF LoggerRaises(currentLogger)
                                THEN \* the logger's error leaves the catch block
                                     /\ pc' = "escaped"
                                     /\ UNCHANGED sent
                                ELSE /\ sent' = sendError(sent, InternalError)
                                     /\ pc' = "done"
                 /\ UNCHANGED <<idx, ctx>>
  /\ UNCHANGED <<route, raw, rvars, lvars, other, pvars, bvars>>

\* The values a handler produces.
HandlerValues == {[greeting |-> "Hello"], [greeting |-> "Bye"]}

\* The promise an async handler returns, fulfilled with v.
Promise(v) == [cls |-> "Promise", value |-> v]

\* What the handler may return: a value, or a promise of one.
HandlerReturns == HandlerValues \cup {Promise(v) : v \in HandlerValues}

\* A response built from what the handler returned without waiting for it.
AwaitSkipped(x) == x

\* await x: x itself, or the value the promise x is fulfilled with.
Await(x) == IF "cls" \in DOMAIN x /\ x.cls = "Promise" THEN x.value ELSE x

\* The responses a handler writes itself through the transport handle the
\* context carries (c.req.res): res.json({ message }) and res.sendStatus(204).
SelfWritten ==
  { [status |-> 200, body |-> [message |-> "done"]],
    [status |-> 204, body |-> EmptyObject] }

\* The statuses for which res.send strips the entity headers before it ends
\* the response.
NoBodyStatuses == {204, 304}

\* The error of a header change on a response whose headers are sent.
HeadersSentError ==
  [cls |-> "Error", message |-> "ERR_HTTP_HEADERS_SENT", stack |-> "at res.send"]

\* res.send(undefined) on a response the handler has finished with `written`:
\* with no body there is no header to set and ending a finished response
\* again is ignored, except that for a 204 or 304 status res.send first
\* removes the entity headers, which raises once the headers are sent.
SendUndefinedThrows(written) == written.status \in NoBodyStatuses

\* The handler call and the response (index.ts:308-320).
RunHandler ==
  /\ pc = "handler"
  /\ \/ \E returned \in HandlerReturns :
          LET response == Await(returned) IN
          /\ calls' = Append(calls, Call("handler", "", 0, ctx, "return", returned))
          /\ sent' = sendResponse(sent, response)
          /\ pc' = "done"
          /\ UNCHANGED logged
     \/ \* the handler writes the response itself and returns undefined
        \E written \in SelfWritten :
          /\ calls' = Append(calls, Call("handler", "", 0, ctx, "wrote", written))
          /\ sent' = Append(sent, written)
          /\ IF SendUndefinedThrows(written)
               THEN \* caught at 311; sendError (315) sets a header on the
                    \* finished response, which raises out of the catch block
                    /\ logged' = errorLogger(logged, HandlerLogMessage, HeadersSentError)
                    /\ pc' = "escaped"
               ELSE /\ pc' = "done"
                    /\ UNCHANGED logged
     \/ \E err \in Raised :
          /\ calls' = Append(calls, Call("handler", "", 0, ctx, "raise", err))
          /\ IF IsRapidError(err)
               THEN /\ sent' = sendError(sent, err)
                    /\ pc' = "done"
                    /\ UNCHANGED logged
               ELSE /\ logged' = errorLogger(logged, HandlerLogMessage, err)
                    /\ IF LoggerRaises(currentLogger)
                         THEN \* the logger's error leaves the catch block
                              /\ pc' = "escaped"
                              /\ UNCHANGED sent
                         ELSE /\ sent' = sendError(sent, InternalError)
                              /\ pc' = "done"
  /\ UNCHANGED <<route, raw, idx, ctx, rvars, lvars, other, pvars, bvars>>

\* The route callback is over (it returned, or it ended by a rejection) and
\* the transport invokes it for the next request: a fresh res, a fresh
\* context. The invocation and logger records start again with the request.
NextRequest ==
  /\ pc \in {"done", "escaped"}
  /\ pc' = "ready"
  /\ raw' = NoRequest
  /\ idx' = 0
  /\ ctx' = EmptyObject
  /\ calls' = <<>>
  /\ sent' = <<>>
  /\ logged' = <<>>
  /\ lastSet' = [lastSet EXCEPT !.at = "ready"]
  /\ UNCHANGED <<route, rvars, currentLogger, other, pvars, bvars>>

\* --------------------------------------------- route composition (subroute)

\* The Rapid instances of the program.
Routers == {"app", "api", "user"}
\* The methods routes are registered with.
Methods == {"get", "post"}
\* Paths are sequences of segments; a segment starting with a colon is a
\* named parameter.
RoutePaths == {<<"widget">>, <<":id">>}
\* The prefixes a router is mounted under.
Prefixes == {<<"api">>}
\* The route callbacks, one per registration (validators, middleware and
\* handler are captured by the callback's closure).
Callbacks == <<"cb1", "cb2", "cb3", "cb4", "cb5">>

NoOp == [name |-> "none", router |-> "", path |-> <<>>, target |-> ""]

RouteLayer(method, path, callback) ==
  [kind |-> "route", method |-> method, path |-> path, target |-> callback]

MountLayer(prefix, child) ==
  [kind |-> "mount", method |-> "use", path |-> prefix, target |-> child]

\* The number of layers registered so far.
RECURSIVE LayerCount(_, _)
LayerCount(st, rs) ==
  IF rs = {} THEN 0
  ELSE LET r == CHOOSE x \in rs : TRUE IN Len(st[r]) + LayerCount(st, rs \ {r})

\* The routers mounted on r, directly or through its children.
Children(st, r) ==
  {st[r][i].target : i \in {j \in 1..Len(st[r]) : st[r][j].kind = "mount"}}

Descendants(st, r) ==
  LET d1 == Children(st, r)
      d2 == d1 \cup UNION {Children(st, x) : x \in d1}
  IN  d2 \cup UNION {Children(st, x) : x \in d2}

\* this.router[method](path, callback) at index.ts:250: one more route layer.
RegisterRoute(r, method, path) ==
  /\ LayerCount(stack, Routers) < MaxLayers
  /\ stack' = [stack EXCEPT ![r] =
       Append(@, RouteLayer(method, path, Callbacks[LayerCount(stack, Routers) + 1]))]
  /\ lastOp' = [name |-> "route", router |-> r, path |-> path, target |-> method]
  /\ UNCHANGED <<route, raw, pc, idx, ctx, calls, sent, logged, lvars, other, pvars, bvars>>

\* A subroute that forgets the prefix and mounts the child at the root.
SubrouteIgnoresPrefix(parent, prefix, child) ==
  /\ LayerCount(stack, Routers) < MaxLayers
  /\ child # parent
  /\ parent \notin Descendants(stack, child)
  /\ stack' = [stack EXCEPT ![parent] = Append(@, MountLayer(<<>>, child))]
  /\ lastOp' = [name |-> "subroute", router |-> parent, path |-> prefix, target |-> child]
  /\ UNCHANGED <<route, raw, pc, idx, ctx, calls, sent, logged, lvars, other, pvars, bvars>>

\* subroute(path, router): this.router.use(path, router.router), index.ts:215-216.
\* The child's router is mounted itself, not a copy of its routes. (A router
\* mounted under itself never finishes a dispatch; such mounts are left out.)
Subroute(parent, prefix, child) ==
  /\ LayerCount(stack, Routers) < MaxLayers
  /\ child # parent
  /\ parent \notin Descendants(stack, child)
  /\ stack' = [stack EXCEPT ![parent] = Append(@, MountLayer(prefix, child))]
  /\ lastOp' = [name |-> "subroute", router |-> parent, path |-> prefix, target |-> child]
  /\ UNCHANGED <<route, raw, pc, idx, ctx, calls, sent, logged, lvars, other, pvars, bvars>>

\* subroute(router): this.router.use(router.router), index.ts:217-218.
SubrouteRoot(parent, child) ==
  /\ LayerCount(stack, Routers) < MaxLayers
  /\ child # parent
  /\ parent \notin Descendants(stack, child)
  /\ stack' = [stack EXCEPT ![parent] = Append(@, MountLayer(<<>>, child))]
  /\ lastOp' = [name |-> "subroute", router |-> parent, path |-> <<>>, target |-> child]
  /\ UNCHANGED <<route, raw, pc, idx, ctx, calls, sent, logged, lvars, other, pvars, bvars>>

\* A route pattern matches a request path segment by segment.
Match(pattern, path) ==
  /\ Len(pattern) = Len(path)
  /\ \A i \in 1..Len(pattern) : pattern[i] = ":id" \/ pattern[i] = path[i]

\* A mount prefix matches the beginning of a request path.
PrefixMatch(prefix, path) ==
  /\ Len(prefix) <= Len(path)
  /\ \A i \in 1..Len(prefix) : prefix[i] = path[i]

\* The transport's dispatch of (method, path) on router r from layer i on: the
\* first route layer that matches answers (a Rapid callback always answers and
\* never passes on); a mount layer whose prefix matches hands the rest of the
\* path to the child and, if the child has no match, the walk goes on.
RECURSIVE Handle(_, _, _, _, _)
Handle(st, r, method, path, i) ==
  IF i > Len(st[r]) THEN "next"
  ELSE LET l == st[r][i] IN
       IF l.kind = "route"
         THEN IF l.method = method /\ Match(l.path, path)
                THEN l.target
                ELSE Handle(st, r, method, path, i + 1)
         ELSE IF PrefixMatch(l.path, path)
                THEN LET inner == Handle(st, l.target, method,
                                         SubSeq(path, Len(l.path) + 1, Len(path)), 1)
                     IN  IF inner # "next" THEN inner
                         ELSE Handle(st, r, method, path, i + 1)
                ELSE Handle(st, r, method, path, i + 1)

Dispatch(st, r, method, path) == Handle(st, r, method, path, 1)

\* -------------------------------- RouteBuilder.applyRoute (the builder API)

\* The error objects applyRoute builds itself (part_004:207-232, 258-262).
BuilderMessage(channel) ==
  CASE channel = "params" -> "Invalid Parameters"
    [] channel = "body" -> "Invalid Body"
    [] channel = "query" -> "Invalid Query Params"
    [] channel = "cookies" -> "Invalid Cookies"

BuilderBadRequest(channel, cause) ==
  [code |-> 400, name |-> "BAD_REQUEST", message |-> BuilderMessage(channel),
   cause |-> cause]

BuilderInternalError ==
  [code |-> 500, name |-> "INTERNAL_SERVER_ERROR",
   message |-> "An internal server error occurred"]

\* const error = (error) => res.status(error.code).json(error), and the two
\* inline res.status(400).json({ code: 400, ... }) of query and cookies.
applyRouteError(res, error) ==
  Append(res, [status |-> error.code, body |-> ToJSON(error)])

applyRouteInline400(res, error) ==
  Append(res, [status |-> 400, body |-> ToJSON(error)])

\* What applyRoute writes for a failing channel, and for an unexpected error.
BuilderValidationResponse(res, channel, cause) ==
  IF channel \in {"params", "body"}
    THEN applyRouteError(res, BuilderBadRequest(channel, cause))
    ELSE applyRouteInline400(res, BuilderBadRequest(channel, cause))

BuilderUnexpectedResponse(res) == applyRouteError(res, BuilderInternalError)

\* ------------------------------------------------- a second request in flight

\* No second route callback.
NoOther == [route |-> NoRoute, raw |-> NoRequest, pc |-> "idle", idx |-> 0,
            ctx |-> EmptyObject, calls |-> <<>>, sent |-> <<>>]

\* The requests of the two callers: they differ in the body they carry.
SampleRequests ==
  {r \in Requests :
     r.query = "ok" /\ r.cookies = "ok" /\ \A n \in ParamNames : r.params[n] = "ok"}

\* The transport invokes the route callback for one of the sample requests.
ReceiveSample ==
  /\ Receive
  /\ raw' \in SampleRequests

\* The state of the running callback, as it is kept while the other runs.
Suspended ==
  [route |-> route, raw |-> raw, pc |-> pc, idx |-> idx, ctx |-> ctx,
   calls |-> calls, sent |-> sent]

\* A context object declared outside the route callback: both callbacks
\* work on the same one.
SwitchSharedContext ==
  /\ other' = Suspended
  /\ route' = other.route
  /\ raw' = other.raw
  /\ pc' = other.pc
  /\ idx' = other.idx
  /\ ctx' = ctx
  /\ calls' = other.calls
  /\ sent' = other.sent
  /\ UNCHANGED <<logged, rvars, lvars, pvars, bvars>>

\* The running callback is suspended at an await and the event loop resumes
\* the other one. Each invocation of the callback has its own req, res and
\* context (index.ts:250-257: the context is a local of the callback); the
\* logger and its record are the process's.
Switch ==
  /\ other' = Suspended
  /\ route' = other.route
  /\ raw' = other.raw
  /\ pc' = other.pc
  /\ idx' = other.idx
  /\ ctx' = other.ctx
  /\ calls' = other.calls
  /\ sent' = other.sent
  /\ UNCHANGED <<logged, rvars, lvars, pvars, bvars>>

\* ------------------------------------------------- defineErrors (error.ts)

\* The keys, codes and messages error declarations are written with.
ErrorKeys == {"NOT_FOUND", "CONFLICT", "GONE"}
ErrorCodes == {404, 409}
ErrorMessages == {"Not found", "Already there"}

\* The declaration objects: up to MaxErrors keys, each once, in the order the
\* object lists them, each with a tuple [code, message].
ErrorsIn ==
  LET Entry == [key : ErrorKeys, value : ErrorCodes \X ErrorMessages]
      Lists == UNION {[1..n -> Entry] : n \in 0..MaxErrors}
  IN  {l \in Lists : \A i, j \in 1..Len(l) : i # j => l[i].key # l[j].key}

\* An entry whose name is taken from the tuple instead of the key.
ErrorDefNamedByMessage(k, v) == [name |-> v[2], code |-> v[1], message |-> v[2]]

\* { name: k, code: errors[k][0], message: errors[k][1] } (error.ts:39)
ErrorDef(k, v) == [name |-> k, code |-> v[1], message |-> v[2]]

\* No defineErrors call.
NoDefs == [errors |-> <<>>, i |-> 1, res |-> EmptyObject, returned |-> FALSE]

\* One iteration of for (const k in errors) res[k] = ... (error.ts:38-39), or
\* the return of res (41).
DefineErrorsStep ==
  /\ ~defs.returned
  /\ IF defs.i > Len(defs.errors)
       THEN defs' = [defs EXCEPT !.returned = TRUE]
       ELSE LET e == ForInEntry(defs.errors, defs.i) IN
            defs' = [defs EXCEPT !.res = SetKey(@, e.key, ErrorDef(e.key, e.value)),
                                 !.i = @ + 1]
  /\ UNCHANGED <<route, raw, pc, idx, ctx, calls, sent, logged, rvars, lvars, other,
                 combo, bvars>>

\* ------------------------------------------- middleware(...fns) (index.ts)

\* What a middleware function does when it is called: it returns an object
\* (EmptyObject for one that returns undefined) or it raises.
MwFunctions ==
  {[kind |-> "fn", out |-> "return", value |-> v] :
     v \in {EmptyObject, [a |-> "x"], [a |-> "y"], [b |-> "x"]}}
  \cup {[kind |-> "fn", out |-> "raise", value |-> e] :
     e \in {RapidError(CHOOSE d \in ErrorDefs : d.code = 404),
            CHOOSE o \in OtherRaised : o.cls = "Error"}}

\* The argument lists of middleware(...).
FnLists == UNION {[1..n -> MwFunctions] : n \in 0..MaxFns}

\* middleware(...fns): the one function itself, or an async function that
\* runs them in order on the context it is given (index.ts:365-376).
middleware(fns) ==
  IF Len(fns) = 1 THEN fns[1] ELSE [kind |-> "combined", fns |-> fns]

\* A combined function that keeps what its functions return to itself.
CombinedAssignNothing(c, d) == c

\* Object.assign(c, d) inside the combined function (index.ts:373): c is the
\* context object of the request itself.
CombinedAssign(c, d) == ObjectAssign(c, d)

\* A run of the middleware loop of a route callback over the steps mws: the
\* step i it is at (and the function j inside a combined step), the context
\* object, the functions invoked with the context each saw, the responses
\* and the logger calls.
NewRun(mws, c) ==
  [mws |-> mws, i |-> 1, j |-> 1, ctx |-> c, seen |-> <<>>, sent |-> <<>>,
   logged |-> <<>>, pc |-> "mw"]

\* The catch block of the middleware loop (index.ts:292-303).
LoopCatch(run, err) ==
  IF IsRapidError(err)
    THEN [run EXCEPT !.sent = sendError(@, err), !.pc = "done"]
    ELSE LET r == [run EXCEPT !.logged = errorLogger(@, MiddlewareLogMessage, err)] IN
         IF LoggerRaises(currentLogger)
           THEN [r EXCEPT !.pc = "escaped"]
           ELSE [r EXCEPT !.sent = sendError(@, InternalError), !.pc = "done"]

\* The run up to its next await: one step of the loop of index.ts:288-305
\* or, inside a combined step, one iteration of the loop of index.ts:371-374.
\* A combined function that is through returns undefined, which the outer
\* Object.assign (291) ignores; one of its functions raising rejects it,
\* which the outer await raises into the catch block.
LoopStep(run) ==
  IF LoopDone(run.i, Len(run.mws))
    THEN [run EXCEPT !.pc = "handler"]
    ELSE LET m == run.mws[run.i] IN
         IF m.kind = "fn"
           THEN LET r == [run EXCEPT !.seen = Append(@, [fn |-> m, ctx |-> run.ctx])] IN
                IF m.out = "raise"
                  THEN LoopCatch(r, m.value)
                  ELSE [r EXCEPT !.ctx = ObjectAssign(@, m.value), !.i = @ + 1]
           ELSE IF run.j > Len(m.fns)
                  THEN [run EXCEPT !.i = @ + 1, !.j = 1]
                  ELSE LET f == m.fns[run.j]
                           r == [run EXCEPT !.seen = Append(@, [fn |-> f, ctx |-> run.ctx])]
                       IN  IF f.out = "raise"
                             THEN LoopCatch(r, f.value)
                             ELSE [r EXCEPT !.ctx = CombinedAssign(@, f.value), !.j = @ + 1]

\* The contexts the compared runs start from.
SampleContexts ==
  {InitialContext([body |-> "ok", query |-> "ok", cookies |-> "bad",
                   params |-> [n \in ParamNames |-> "ok"]])}

\* The functions fns registered as Len(fns) consecutive steps of one route,
\* and middleware(fns) registered as the one step of another, each route
\* called with a request of the same content.
Combo(fns, c) ==
  [fns |-> fns, steps |-> NewRun(fns, c), one |-> NewRun(<<middleware(fns)>>, c)]

NoCombo == Combo(<<>>, EmptyObject)

\* The callback of the route with the consecutive steps runs to its next await.
RunSteps ==
  /\ combo.steps.pc = "mw"
  /\ combo' = [combo EXCEPT !.steps = LoopStep(@)]
  /\ UNCHANGED <<route, raw, pc, idx, ctx, calls, sent, logged, rvars, lvars, other,
                 defs, bvars>>

\* The callback of the route with the combined step runs to its next await.
RunCombined ==
  /\ combo.one.pc = "mw"
  /\ combo' = [combo EXCEPT !.one = LoopStep(@)]
  /\ UNCHANGED <<route, raw, pc, idx, ctx, calls, sent, logged, rvars, lvars, other,
                 defs, bvars>>

\* ----------------------------------------- RouteBuilder (the builder API)

\* The channels of a RouteBuilder route, in the order applyRoute checks them
\* (part_004:204, 211, 218, 227).
BuilderOrderBodyFirst == <<"body", "params", "query", "cookies">>

BuilderOrder == <<"params", "body", "query", "cookies">>

\* The field of the RouteBuilder that holds a channel's schema.
SchemaField(channel) ==
  CASE channel = "params" -> "paramSchema"
    [] channel = "body" -> "bodySchema"
    [] channel = "query" -> "querySchema"
    [] channel = "cookies" -> "cookieSchema"

\* The schema a builder method is called with (for params, z.object(schema)).
BuilderSchema(channel) ==
  CASE channel = "params" -> "zParams"
    [] channel = "body" -> "zBody"
    [] channel = "query" -> "zQuery"
    [] channel = "cookies" -> "zCookies"

\* schema.safeParse(value): the parsed data, or the error and what its
\* flatten() gives.
safeParse(schema, v) ==
  IF v = "ok"
    THEN [success |-> TRUE,
          data |-> CASE schema = "zParams" -> "params:parsed"
                     [] schema = "zBody" -> "body:parsed"
                     [] schema = "zQuery" -> "query:parsed"
                     [] schema = "zCookies" -> "cookies:parsed"]
    ELSE [success |-> FALSE,
          flattened |-> CASE schema = "zParams" -> "params:flattened"
                          [] schema = "zBody" -> "body:flattened"
                          [] schema = "zQuery" -> "query:flattened"
                          [] schema = "zCookies" -> "cookies:flattened"]

\* new RouteBuilder(router, path) as createRouter().path(path) calls it: no
\* schema, no middleware (part_004:107, 110-116, 318).
NewBuilder ==
  [paramSchema |-> Undefined, bodySchema |-> Undefined, querySchema |-> Undefined,
   cookieSchema |-> Undefined, middleware |-> <<>>]

\* The application calls the builder methods while it sets its routes up,
\* before the server takes requests (pc = "idle").
\* params(schema), body(schema), query(schema), cookies(schema): the field is
\* assigned on this builder (part_004:132-163).
BuilderDeclare(channel) ==
  /\ pc = "idle"
  /\ builder' = [builder EXCEPT ![SchemaField(channel)] = BuilderSchema(channel)]
  /\ UNCHANGED <<route, raw, pc, idx, ctx, calls, sent, logged, rvars, lvars, other,
                 pvars, registered, bdata>>

\* input({ body?, query?, cookies? }): the three fields are assigned, a
\* channel the argument leaves out becoming undefined (part_004:178-180).
BuilderInput(given) ==
  /\ pc = "idle"
  /\ builder' = [builder EXCEPT
       !.bodySchema = IF "body" \in given THEN BuilderSchema("body") ELSE Undefined,
       !.querySchema = IF "query" \in given THEN BuilderSchema("query") ELSE Undefined,
       !.cookieSchema = IF "cookies" \in given THEN BuilderSchema("cookies") ELSE Undefined]
  /\ UNCHANGED <<route, raw, pc, idx, ctx, calls, sent, logged, rvars, lvars, other,
                 pvars, registered, bdata>>

\* The middleware functions passed to use, in the order of the calls.
UseFunctions == <<"use1", "use2", "use3", "use4">>

\* use(middleware): this.middleware.push(middleware) (part_004:124).
BuilderUse ==
  /\ pc = "idle"
  /\ Len(builder.middleware) < MaxUse
  /\ builder' = [builder EXCEPT
       !.middleware = Append(@, UseFunctions[Len(builder.middleware) + 1])]
  /\ UNCHANGED <<route, raw, pc, idx, ctx, calls, sent, logged, rvars, lvars, other,
                 pvars, registered, bdata>>

\* get(handler), post(handler), ...: applyRoute registers a callback on the
\* router (part_004:192). The callback keeps the handler and `this`; the
\* record keeps, next to the method, what the builder declared at this moment.
ApplyRoute(method) ==
  /\ pc = "idle"
  /\ registered = <<>>
  /\ registered' = Append(registered, [method |-> method, declared |-> builder])
  /\ UNCHANGED <<route, raw, pc, idx, ctx, calls, sent, logged, rvars, lvars, other,
                 pvars, builder, bdata>>

\* The builder methods as the examples call them: before the route is
\* registered.
DeclareFirst(channel) ==
  /\ registered = <<>>
  /\ BuilderDeclare(channel)

InputFirst(given) ==
  /\ registered = <<>>
  /\ BuilderInput(given)

UseFirst ==
  /\ registered = <<>>
  /\ BuilderUse

\* A data object whose channels start undefined.
NoDataUndefined ==
  [body |-> Undefined, query |-> Undefined, cookies |-> Undefined, params |-> Undefined]

\* const data = { body: null, query: null, cookies: null, params: null }
\* (part_004:197-202)
NoData == [body |-> "null", query |-> "null", cookies |-> "null", params |-> "null"]

\* The requests the transport dispatches to a RouteBuilder route.
BuilderRequests ==
  [body : RawValues, query : RawValues, cookies : RawValues, params : RawValues]

\* The checks of part_004:204-234 from channel i of the order on: a channel
\* whose field holds a schema is parsed; the first that fails ends them.
RECURSIVE CheckChannels(_, _, _, _, _)
CheckChannels(b, req, i, d, log) ==
  IF i > Len(BuilderOrder)
    THEN [success |-> TRUE, data |-> d, calls |-> log]
    ELSE LET channel == BuilderOrder[i]
             schema == b[SchemaField(channel)]
         IN  IF schema = Undefined
               THEN CheckChannels(b, req, i + 1, d, log)
               ELSE LET r == safeParse(schema, req[channel]) IN
                    IF r.success
                      THEN CheckChannels(b, req, i + 1, [d EXCEPT ![channel] = r.data],
                             Append(log, Call("validate", channel, i, EmptyObject,
                                              "success", r.data)))
                      ELSE [success |-> FALSE, channel |-> channel,
                            cause |-> r.flattened, data |-> d,
                            calls |-> Append(log, Call("validate", channel, i, EmptyObject,
                                                       "failure", r.flattened))]

\* let middlewareData = { req, res } (part_004:236)
MiddlewareData == [req |-> "req", res |-> "res"]

\* The transport invokes the callback registered by applyRoute: the checks
\* run without an await between them, on the schemas the builder holds now.
BuilderReceive ==
  /\ pc \in {"idle", "done"}
  /\ registered # <<>>
  /\ \E req \in BuilderRequests :
       LET checked == CheckChannels(builder, req, 1, NoData, <<>>) IN
       /\ raw' = req
       /\ calls' = checked.calls
       /\ bdata' = checked.data
       /\ logged' = <<>>
       /\ IF checked.success
            THEN /\ sent' = <<>>
                 /\ ctx' = MiddlewareData
                 /\ idx' = 1
                 /\ pc' = "mw"
            ELSE /\ sent' = BuilderValidationResponse(<<>>, checked.channel, checked.cause)
                 /\ ctx' = EmptyObject
                 /\ idx' = 0
                 /\ pc' = "done"
  /\ UNCHANGED <<route, rvars, lvars, other, pvars, builder, registered>>

\* Requests whose channels are all valid or all invalid.
BuilderReceiveSample ==
  /\ BuilderReceive
  /\ raw'.params = raw'.body /\ raw'.body = raw'.query /\ raw'.query = raw'.cookies

\* An ApiError as examples/using-middleware.ts raises it.
ApiError(error) ==
  [cls |-> "ApiError", code |-> error.code, name |-> error.name, message |-> error.message]

\* err instanceof ApiError
IsApiError(err) == err.cls = "ApiError"

\* The values a middleware function or a handler of a RouteBuilder route raises.
BuilderRaised ==
  { ApiError([code |-> 401, name |-> "UNAUTHORIZED", message |-> "Wrong Password"]),
    [cls |-> "Error", message |-> "db down", stack |-> "at db.ts:1"] }

\* console.error(err)
consoleError(log, err) ==
  Append(log, [logger |-> "console.error", message |-> Undefined, err |-> err])

\* { ...middlewareData, ...newData }
Spread(target, source) == ObjectAssign(target, source)

\* One iteration of the loop of part_004:239-244 or, when it is through, the
\* step to the handler call; a function that raises, or whose promise
\* rejects, is caught at 253 (the call is awaited inside the try).
BuilderRunMiddleware ==
  /\ pc = "mw"
  /\ IF idx > Len(builder.middleware)
       THEN /\ pc' = "handler"
            /\ UNCHANGED <<idx, ctx, calls, sent, logged>>
       ELSE \/ \* typeof newData === "object": merged into a new object
               \E newData \in {[somedata |-> "hello"]} :
                 /\ calls' = Append(calls, Call("mw", "", idx, ctx, "return", newData))
                 /\ ctx' = Spread(ctx, newData)
                 /\ idx' = idx + 1
                 /\ UNCHANGED <<pc, sent, logged>>
            \/ \* undefined: nothing is merged
               /\ calls' = Append(calls, Call("mw", "", idx, ctx, "return", EmptyObject))
               /\ idx' = idx + 1
               /\ UNCHANGED <<pc, ctx, sent, logged>>
            \/ \E err \in BuilderRaised, how \in {"raise", "reject"} :
                 /\ calls' = Append(calls, Call("mw", "", idx, ctx, how, err))
                 /\ IF IsApiError(err)
                      THEN /\ sent' = applyRouteError(sent, err)
                           /\ UNCHANGED logged
                      ELSE /\ logged' = consoleError(logged, err)
                           /\ sent' = BuilderUnexpectedResponse(sent)
                 /\ pc' = "done"
                 /\ UNCHANGED <<idx, ctx>>
  /\ UNCHANGED <<route, raw, rvars, lvars, other, pvars, bvars>>

\* The argument of the handler (part_004:246-252).
HandlerArgument(d, c) ==
  [body |-> d.body, cookies |-> d.cookies, query |-> d.query, params |-> d.params,
   ctx |-> c]

\* handler({...}) at part_004:246: the call is not awaited and what it
\* returns is dropped. A handler returns a value, or a promise of one,
\* having written nothing; or it writes the response itself; or it raises,
\* which the catch block at 253 handles; or it is async and its promise
\* rejects, which nothing in the callback observes.
BuilderRunHandler ==
  /\ pc = "handler"
  /\ LET arg == HandlerArgument(bdata, ctx) IN
     \/ \E returned \in HandlerReturns :
          /\ calls' = Append(calls, Call("handler", "", 0, arg, "return", returned))
          /\ UNCHANGED <<sent, logged>>
     \/ \E written \in SelfWritten :
          /\ calls' = Append(calls, Call("handler", "", 0, arg, "wrote", written))
          /\ sent' = Append(sent, written)
          /\ UNCHANGED logged
     \/ \E err \in BuilderRaised :
          /\ calls' = Append(calls, Call("handler", "", 0, arg, "raise", err))
          /\ IF IsApiError(err)
               THEN /\ sent' = applyRouteError(sent, err)
                    /\ UNCHANGED logged
               ELSE /\ logged' = consoleError(logged, err)
                    /\ sent' = BuilderUnexpectedResponse(sent)
     \/ \E err \in BuilderRaised :
          /\ calls' = Append(calls, Call("handler", "", 0, arg, "reject", err))
          /\ UNCHANGED <<sent, logged>>
  /\ pc' = "done"
  /\ UNCHANGED <<route, raw, idx, ctx, rvars, lvars, other, pvars, bvars>>

\* The program before any registration and any request.
InitProgram ==
  /\ route = NoRoute
  /\ raw = NoRequest
  /\ pc = "idle"
  /\ idx = 0
  /\ ctx = EmptyObject
  /\ calls = <<>>
  /\ sent = <<>>
  /\ logged = <<>>
  /\ stack = [r \in Routers |-> <<>>]
  /\ lastOp = NoOp
  /\ currentLogger = "console"
  /\ lastSet = NoSet
  /\ other = NoOther
  /\ builder = NewBuilder
  /\ registered = <<>>
  /\ bdata = NoData

Init ==
  /\ InitProgram
  /\ defs = NoDefs
  /\ combo = NoCombo

\* middleware(...) is called with any argument list within the bounds.
InitCombine ==
  /\ InitProgram
  /\ defs = NoDefs
  /\ combo \in {Combo(fns, c) : fns \in FnLists, c \in SampleContexts}

\* defineErrors is called with any declaration object within the bounds.
InitErrors ==
  /\ InitProgram
  /\ defs \in {[NoDefs EXCEPT !.errors = e] : e \in ErrorsIn}
  /\ combo = NoCombo

Next ==
  \/ Register
  \/ Receive
  \/ ValidateParams
  \/ ValidateInputs
  \/ RunMiddleware
  \/ RunHandler

Spec == Init /\ [][Next]_vars

NextRoutes ==
  \/ \E r \in Routers, method \in Methods, path \in RoutePaths :
       RegisterRoute(r, method, path)
  \/ \E parent, child \in Routers, prefix \in Prefixes :
       Subroute(parent, prefix, child)
  \/ \E parent, child \in Routers : SubrouteRoot(parent, child)

SpecRoutes == Init /\ [][NextRoutes]_vars

\* defineErrors applied to every declaration object within the bounds, one
\* iteration of its loop at a time.
NextErrors == DefineErrorsStep

SpecErrors == InitErrors /\ [][NextErrors]_vars

\* The sample routes and requests, with a callback that is resumed whenever
\* what it awaits has settled: the event loop leaves no continuation of a
\* settled promise waiting for ever.
NextLive ==
  \/ RegisterSample
  \/ ReceiveSample
  \/ ValidateParams
  \/ ValidateInputs
  \/ RunMiddleware
  \/ RunHandler

SpecLive ==
  /\ Init
  /\ [][NextLive]_vars
  /\ WF_vars(ValidateParams)
  /\ WF_vars(ValidateInputs)
  /\ WF_vars(RunMiddleware)
  /\ WF_vars(RunHandler)

\* One RouteBuilder as the examples use it: builder methods called in any
\* order, then the route registered, then one request after the other (the
\* builder is as it was at registration for every request).
NextBuilder ==
  \/ \E channel \in {"params", "body", "query", "cookies"} : DeclareFirst(channel)
  \/ \E given \in SUBSET {"body", "query", "cookies"} : InputFirst(given)
  \/ UseFirst
  \/ \E method \in Methods : ApplyRoute(method)
  \/ BuilderReceive
  \/ BuilderRunMiddleware
  \/ BuilderRunHandler

SpecBuilder == Init /\ [][NextBuilder]_vars

\* One RouteBuilder the application keeps a reference to: builder methods
\* are called before and after the route is registered.
NextRebuild ==
  \/ \E channel \in {"params", "body", "query", "cookies"} : BuilderDeclare(channel)
  \/ \E given \in SUBSET {"body", "query", "cookies"} : BuilderInput(given)
  \/ BuilderUse
  \/ \E method \in Methods : ApplyRoute(method)
  \/ BuilderReceiveSample
  \/ BuilderRunMiddleware
  \/ BuilderRunHandler

SpecRebuild == Init /\ [][NextRebuild]_vars

\* Every argument list of middleware(...) within the bounds, run both ways.
NextCombine ==
  \/ RunSteps
  \/ RunCombined

SpecCombine == InitCombine /\ [][NextCombine]_vars

\* The sample routes under a logger the application replaces at any moment,
\* one request after the other.
NextLogger ==
  \/ RegisterSample
  \/ SetErrorLogger
  \/ Receive
  \/ ValidateParams
  \/ ValidateInputs
  \/ RunMiddleware
  \/ RunHandler
  \/ NextRequest

SpecLogger == Init /\ [][NextLogger]_vars

\* Two route callbacks in flight, interleaved at every await.
NextConcurrent ==
  \/ RegisterSample
  \/ ReceiveSample
  \/ ValidateParams
  \/ ValidateInputs
  \/ RunMiddleware
  \/ RunHandler
  \/ Switch

SpecConcurrent == Init /\ [][NextConcurrent]_vars

\* ======================================================= the claims (Spec)

\* The position at which a validator object lists a key with a schema (0: not).
PosOf(entries, key) ==
  IF \E i \in 1..Len(entries) : entries[i].key = key /\ entries[i].schema # Undefined
    THEN CHOOSE i \in 1..Len(entries) : entries[i].key = key
    ELSE 0

\* The route declares a schema for the key.
DeclaredInput(key) == PosOf(route.validators, key) # 0
DeclaredParam(name) == route.paramsDeclared /\ PosOf(route.params, name) # 0

\* The declared keys whose value in the request its schema rejects.
FailingInputs == {k \in Channels : DeclaredInput(k) /\ raw[k] = "bad"}
FailingParams == {n \in ParamNames : DeclaredParam(n) /\ raw.params[n] = "bad"}

\* Among the failing keys, the one the validator object lists first.
FirstFailingInput ==
  CHOOSE k \in FailingInputs :
    \A o \in FailingInputs : PosOf(route.validators, k) <= PosOf(route.validators, o)
FirstFailingParam ==
  CHOOSE n \in FailingParams :
    \A o \in FailingParams : PosOf(route.params, n) <= PosOf(route.params, o)

\* The responses the claims expect, written out field by field.
BadRequestFor(k) ==
  [status |-> 400,
   body |-> [code |-> 400, name |-> "Bad Request",
             message |-> CASE k = "body" -> "Invalid body"
                           [] k = "query" -> "Invalid query"
                           [] k = "cookies" -> "Invalid cookies",
             cause |-> CASE k = "body" -> "body:issues"
                         [] k = "query" -> "query:issues"
                         [] k = "cookies" -> "cookies:issues"]]

NotFoundFor(n) ==
  [status |-> 404,
   body |-> [code |-> 404, name |-> "Not Found",
             message |-> CASE n = "id" -> "Invalid route param id"
                           [] n = "slug" -> "Invalid route param slug",
             cause |-> CASE n = "id" -> "id:issues"
                         [] n = "slug" -> "slug:issues"]]

\* The stages invoked so far.
StagesCalled == {calls[i].stage : i \in 1..Len(calls)}

\* C1 as stated: a route declares schemas for body and query, the request
\* passes params validation and its body and query are both invalid (its
\* cookies are not at fault); then, whatever order the validator object lists
\* the channels in, the response is the 400 'Invalid body' error.
C1_BodyErrorWhateverOrder ==
  ( /\ pc = "done"
    /\ FailingParams = {}
    /\ FailingInputs = {"body", "query"} )
  => sent = <<BadRequestFor("body")>>

\* C1 amended: under the same conditions the response is the 400 error of
\* whichever failing channel the validator object lists first: the body
\* error when body is listed before query, the query error when query is
\* listed before body.
C1_FirstListedChannelError ==
  ( /\ pc = "done"
    /\ FailingParams = {}
    /\ {"body", "query"} \subseteq FailingInputs )
  => /\ sent = <<BadRequestFor(FirstFailingInput)>>
     /\ ( /\ FailingInputs = {"body", "query"}
          /\ PosOf(route.validators, "body") < PosOf(route.validators, "query") )
        => sent = <<BadRequestFor("body")>>
     /\ ( /\ FailingInputs = {"body", "query"}
          /\ PosOf(route.validators, "query") < PosOf(route.validators, "body") )
        => sent = <<BadRequestFor("query")>>

\* C1 witness: query is listed before body, both are invalid, and the query
\* error has been sent.
C1_Witness ==
  /\ pc = "done"
  /\ FailingParams = {}
  /\ FailingInputs = {"body", "query"}
  /\ PosOf(route.validators, "query") < PosOf(route.validators, "body")
  /\ sent = <<BadRequestFor("query")>>

\* C2: when a params validator is declared and a declared path parameter's
\* value fails its schema, only params validators are ever invoked (no
\* body/query/cookies validator, middleware step or handler), nothing is
\* logged, and the response is the 404 naming the first failing parameter
\* with that validator's issues as cause, whatever body, query and cookies
\* hold.
C2_InvalidParamIs404 ==
  FailingParams # {}
  => /\ StagesCalled \subseteq {"params"}
     /\ logged = <<>>
     /\ pc \in {"params", "done", "escaped"}
     /\ pc = "done" => sent = <<NotFoundFor(FirstFailingParam)>>
     /\ pc # "done" => sent = <<>>

\* C2 witness: slug fails after id passed, while body, query and cookies are
\* declared and invalid too; the 404 naming slug has been sent.
C2_Witness ==
  /\ pc = "done"
  /\ FailingParams = {"slug"}
  /\ DeclaredParam("id")
  /\ FailingInputs = Channels
  /\ sent = <<NotFoundFor("slug")>>

\* C3: when params validation passes and some declared body, query or
\* cookies validator fails, the response is the 400 naming the first channel
\* that failed, with that channel's issues as cause; no channel listed after
\* it is validated, and no middleware step or handler is invoked.
C3_FirstInputFailureIs400 ==
  (FailingParams = {} /\ FailingInputs # {})
  => /\ StagesCalled \subseteq {"params", "inputs"}
     /\ \A i \in 1..Len(calls) :
          calls[i].stage = "inputs"
          => PosOf(route.validators, calls[i].key)
               <= PosOf(route.validators, FirstFailingInput)
     /\ logged = <<>>
     /\ pc \in {"params", "inputs", "done", "escaped"}
     /\ pc = "done" => sent = <<BadRequestFor(FirstFailingInput)>>
     /\ pc # "done" => sent = <<>>

\* C3 witness: cookies, listed between two other channels, is the first to
\* fail; the one before it was validated and the one after it was not.
C3_Witness ==
  /\ pc = "done"
  /\ FailingParams = {}
  /\ Len(route.validators) = 3
  /\ route.validators[2].key = "cookies"
  /\ FirstFailingInput = "cookies"
  /\ raw[route.validators[3].key] = "bad"
  /\ sent = <<BadRequestFor("cookies")>>
  /\ \E i \in 1..Len(calls) : calls[i].stage = "inputs" /\ calls[i].kind = "success"

\* The invocations of middleware steps so far.
MwCalls == {i \in 1..Len(calls) : calls[i].stage = "mw"}

\* A middleware step or the handler raised at invocation i.
RaisedAt(i) == calls[i].stage \in {"mw", "handler"} /\ calls[i].kind = "raise"

\* C4 as stated: once a middleware step has returned a key that an earlier
\* step already added, the request has failed with the generic 500: the
\* handler is not invoked, the logger has been called, and the first step's
\* value is still in the context.
C4_CollisionIsInternalError ==
  \A i, j \in MwCalls :
    ( /\ i < j
      /\ calls[i].kind = "return"
      /\ calls[j].kind = "return"
      /\ DOMAIN calls[i].value \cap DOMAIN calls[j].value # {} )
    => /\ "handler" \notin StagesCalled
       /\ Len(logged) = 1
       /\ Len(sent) = 1
       /\ sent[1].status = 500
       /\ \A k \in DOMAIN calls[i].value \cap DOMAIN calls[j].value :
            ctx[k] = calls[i].value[k]

\* The schema output the claims expect for a key.
ParsedFor(key) ==
  CASE key = "body" -> "body:parsed"
    [] key = "query" -> "query:parsed"
    [] key = "cookies" -> "cookies:parsed"
    [] key = "id" -> "id:parsed"
    [] key = "slug" -> "slug:parsed"

\* C5: when every middleware step returned keys disjoint from the base keys
\* and from the other steps' keys, the context the handler is invoked with
\* has exactly the base keys and the returned keys, every returned key with
\* the value its step returned, req the transport handle, and body, query,
\* cookies and each path parameter the schema's output where a schema is
\* declared and the transport's value where none is.
C5_AdditiveContext ==
  \A h \in 1..Len(calls) :
    ( /\ calls[h].stage = "handler"
      /\ \A i \in MwCalls :
           /\ DOMAIN calls[i].value \cap BaseKeys = {}
           /\ \A j \in MwCalls :
                i # j => DOMAIN calls[i].value \cap DOMAIN calls[j].value = {} )
    => LET c == calls[h].ctx IN
       /\ DOMAIN c = BaseKeys \cup UNION {DOMAIN calls[i].value : i \in MwCalls}
       /\ \A i \in MwCalls : \A k \in DOMAIN calls[i].value : c[k] = calls[i].value[k]
       /\ c["req"] = "req"
       /\ \A k \in Channels :
            c[k] = IF DeclaredInput(k) THEN ParsedFor(k) ELSE raw[k]
       /\ \A n \in ParamNames :
            c["params"][n] = IF DeclaredParam(n) THEN ParsedFor(n) ELSE raw.params[n]

\* C5 witness: two steps added a and b, body was validated and cookies was
\* not, and the handler saw all of it.
C5_Witness ==
  /\ pc = "done"
  /\ route.nmw = 2
  /\ DeclaredInput("body") /\ ~DeclaredInput("cookies") /\ DeclaredParam("id")
  /\ \E h \in 1..Len(calls) :
       /\ calls[h].stage = "handler"
       /\ DOMAIN calls[h].ctx = BaseKeys \cup {"a", "b"}
       /\ calls[h].ctx["a"] = "m1"
       /\ calls[h].ctx["b"] = "m2"
       /\ calls[h].ctx["body"] = "body:parsed"
       /\ calls[h].ctx["cookies"] = raw.cookies

\* C6: when a middleware step or the handler raises a RapidError, the
\* response has the error's code as status and a body made of the error's
\* name, code, message and cause with the error's values (a field that is
\* undefined is absent from the body), and the logger is not called.
C6_DomainErrorPassthrough ==
  \A i \in 1..Len(calls) :
    (RaisedAt(i) /\ calls[i].value.cls = "RapidError")
    => LET e == calls[i].value IN
       /\ logged = <<>>
       /\ Len(sent) = 1
       /\ sent[1].status = e.code
       /\ DOMAIN sent[1].body \subseteq {"name", "code", "message", "cause"}
       /\ sent[1].body.name = e.name
       /\ sent[1].body.code = e.code
       /\ IF e.message = Undefined
            THEN "message" \notin DOMAIN sent[1].body
            ELSE sent[1].body.message = e.message
       /\ IF e.cause = Undefined
            THEN "cause" \notin DOMAIN sent[1].body
            ELSE sent[1].body.cause = e.cause

\* C6 witness: the handler raised the NOT_FOUND error of the specification
\* and the response is exactly it.
C6_Witness ==
  /\ pc = "done"
  /\ calls[Len(calls)].stage = "handler"
  /\ calls[Len(calls)].kind = "raise"
  /\ sent = <<[status |-> 404,
               body |-> [name |-> "NOT_FOUND", code |-> 404, message |-> "User not found"]]>>

\* C7: when a middleware step or the handler raises a value that is no
\* RapidError, the response is the 500 with the fixed name and message,
\* whatever was raised, and the logger has been called exactly once, with
\* the raised value.
C7_UnexpectedErrorIsGeneric500 ==
  \A i \in 1..Len(calls) :
    (RaisedAt(i) /\ calls[i].value.cls # "RapidError")
    => /\ sent = <<[status |-> 500,
                    body |-> [code |-> 500, name |-> "Internal Server Error",
                              message |-> "An error occurred while processing the request"]]>>
       /\ Len(logged) = 1
       /\ logged[1].err = calls[i].value

\* C7 witness: the second middleware step raised a runtime error.
C7_Witness ==
  /\ pc = "done"
  /\ Len(calls) > 0
  /\ calls[Len(calls)].stage = "mw"
  /\ calls[Len(calls)].idx = 2
  /\ calls[Len(calls)].kind = "raise"
  /\ calls[Len(calls)].value.cls = "Error"
  /\ Len(logged) = 1
  /\ Len(sent) = 1 /\ sent[1].status = 500

\* C8: a channel among body, query and cookies with no declared schema is,
\* in the context of every middleware step and of the handler, the value the
\* transport supplied (as long as no earlier step returned that key), and a
\* request whose declared schemas all accept is never answered by a
\* validation error: it reaches the middleware or the handler.
C8_UndeclaredChannelPassthrough ==
  /\ LET mw == MwCalls
         undeclared == {k \in Channels : ~DeclaredInput(k)}
     IN  \A i \in 1..Len(calls) : \A k \in undeclared :
           ( /\ calls[i].stage \in {"mw", "handler"}
             /\ \A j \in mw : j < i => k \notin DOMAIN calls[j].value )
           => calls[i].ctx[k] = raw[k]
  /\ (pc = "done" /\ FailingParams = {} /\ FailingInputs = {})
     => StagesCalled \cap {"mw", "handler"} # {}

\* C8 witness: cookies has no schema and holds a value a schema would
\* reject; the middleware step and the handler both saw that value.
C8_Witness ==
  /\ pc = "done"
  /\ ~DeclaredInput("cookies")
  /\ DeclaredInput("body")
  /\ raw.cookies = "bad"
  /\ \E i, h \in 1..Len(calls) :
       /\ calls[i].stage = "mw" /\ calls[i].ctx["cookies"] = "bad"
       /\ calls[h].stage = "handler" /\ calls[h].ctx["cookies"] = "bad"

\* An error response has been sent: the last stage invoked failed or raised.
ErrorSent ==
  /\ sent # <<>>
  /\ calls # <<>>
  /\ calls[Len(calls)].kind \in {"failure", "raise"}

\* C10: once a stage has failed and the error response has been sent, no
\* validator, middleware step or handler is invoked for the request and
\* nothing more is written or logged.
C10_NoStageAfterError ==
  [][ErrorSent => (calls' = calls /\ sent' = sent /\ logged' = logged)]_vars

\* C10 witness: the first of two middleware steps raised, the error was sent
\* and the request is over with the second step and the handler not invoked.
C10_Witness ==
  /\ ErrorSent
  /\ pc = "done"
  /\ route.nmw = 2
  /\ calls[Len(calls)].stage = "mw"
  /\ calls[Len(calls)].idx = 1

\* The route callback is over: it returned, or it ended by a rejection that
\* nothing caught.
CallbackOver == pc \in {"done", "escaped"}

\* C11 as stated: no failure escapes the route callback. Whenever a
\* validator, a middleware step or the handler has failed or raised, exactly
\* one response has been sent and it is an error envelope (a body with name
\* and code), and the callback never ends by an uncaught rejection.
C11_EveryFailureIsEnvelope ==
  /\ pc # "escaped"
  /\ \A i \in 1..Len(calls) :
       calls[i].kind \in {"failure", "raise"}
       => /\ Len(sent) = 1
          /\ {"name", "code"} \subseteq DOMAIN sent[1].body

\* C12: when the handler returned a value without raising (validation and
\* every middleware step having succeeded before it), the one response sent
\* has the default success status 200 and, as body, exactly the value the
\* handler returned, or the value its promise was fulfilled with when the
\* handler is asynchronous; nothing is logged.
C12_HandlerValueIsBody ==
  \A h \in 1..Len(calls) :
    (calls[h].stage = "handler" /\ calls[h].kind = "return")
    => LET r == calls[h].value
           v == IF "cls" \in DOMAIN r THEN r.value ELSE r
       IN  /\ v \in HandlerValues
           /\ sent = <<[status |-> 200, body |-> v]>>
           /\ logged = <<>>
           /\ \A i \in 1..Len(calls) : calls[i].kind \in {"success", "return"}

\* C12 witness: an asynchronous handler's promise was fulfilled with the
\* greeting after two middleware steps and a body validation succeeded, and
\* the greeting is the body of the 200 response.
C12_Witness ==
  /\ pc = "done"
  /\ route.nmw = 2
  /\ DeclaredInput("body")
  /\ calls[Len(calls)].stage = "handler"
  /\ calls[Len(calls)].value = Promise([greeting |-> "Hello"])
  /\ sent = <<[status |-> 200, body |-> [greeting |-> "Hello"]]>>

\* C13 as stated: at most one response is written per request, and when
\* the handler wrote the response itself and returned nothing, that response
\* is the only one, nothing is logged and the callback ends without an error.
C13_SelfWrittenResponseIsFinal ==
  /\ Len(sent) <= 1
  /\ \A h \in 1..Len(calls) :
       (calls[h].stage = "handler" /\ calls[h].kind = "wrote")
       => /\ sent = <<calls[h].value>>
          /\ logged = <<>>
          /\ pc = "done"

\* The causes a validator reports, as the claims write them.
IssueLists == {"body:issues", "query:issues", "cookies:issues", "id:issues", "slug:issues"}

\* C14: whenever the pipeline has written an error response (after a params
\* failure, a body, query or cookies failure, a domain error or an unexpected
\* error), the response's status is the code field of its body and the body
\* carries name and code: 404 after a params failure, 400 after an input
\* failure, the raised error's code after a domain error, 500 after an
\* unexpected error. The error writer of RouteBuilder.applyRoute does the
\* same for each error applyRoute builds (a fact about the writer alone,
\* evaluated in the initial state).
C14_StatusEqualsBodyCode ==
  /\ ErrorSent
     => LET last == calls[Len(calls)]
            r == sent[Len(sent)]
        IN  /\ {"name", "code"} \subseteq DOMAIN r.body
            /\ r.status = r.body.code
            /\ r.status =
                 CASE last.stage = "params" -> 404
                   [] last.stage = "inputs" -> 400
                   [] last.value.cls = "RapidError" -> last.value.code
                   [] OTHER -> 500
  /\ pc = "idle"
     => /\ \A channel \in {"params", "body", "query", "cookies"}, cause \in IssueLists :
             LET r == BuilderValidationResponse(<<>>, channel, cause)[1] IN
             /\ r.status = 400
             /\ r.body.code = 400
             /\ {"name", "code"} \subseteq DOMAIN r.body
        /\ LET r == BuilderUnexpectedResponse(<<>>)[1] IN
           /\ r.status = 500
           /\ r.body.code = 500
           /\ {"name", "code"} \subseteq DOMAIN r.body

\* C14 witness: a middleware step raised the 418 domain error and the
\* response written has status 418 and a body with code 418.
C14_Witness ==
  /\ ErrorSent
  /\ calls[Len(calls)].stage = "mw"
  /\ calls[Len(calls)].value.cls = "RapidError"
  /\ calls[Len(calls)].value.code = 418
  /\ sent[1].status = 418
  /\ sent[1].body.code = 418
  /\ sent[1].body.name = "TEAPOT"

\* The middleware invocations before invocation i.
MwCallsBefore(i) == {j \in MwCalls : j < i}

\* C19: the middleware steps are invoked in the order of registration, one
\* after the other: the k-th middleware invocation is that of step k, every
\* step before it has returned, and the context it is given has the base
\* keys and every key those steps returned; the handler is invoked only
\* after all the route's steps have returned, with all their keys, and
\* nothing is invoked after it.
C19_MiddlewareInOrder ==
  /\ \A i \in MwCalls :
       LET before == MwCallsBefore(i) IN
       /\ calls[i].idx = Cardinality(before) + 1
       /\ calls[i].idx <= route.nmw
       /\ BaseKeys \subseteq DOMAIN calls[i].ctx
       /\ \A j \in before :
            /\ calls[j].kind = "return"
            /\ DOMAIN calls[j].value \subseteq DOMAIN calls[i].ctx
  /\ \A h \in 1..Len(calls) :
       calls[h].stage = "handler"
       => LET before == MwCallsBefore(h) IN
          /\ h = Len(calls)
          /\ Cardinality(before) = route.nmw
          /\ BaseKeys \subseteq DOMAIN calls[h].ctx
          /\ \A j \in before :
               /\ calls[j].kind = "return"
               /\ DOMAIN calls[j].value \subseteq DOMAIN calls[h].ctx

\* C19 witness: step 1 returned a, step 2 was then invoked with a in its
\* context and returned b, and the handler was invoked last with both.
C19_Witness ==
  /\ route.nmw = 2
  /\ Len(calls) >= 3
  /\ LET n == Len(calls) IN
     /\ calls[n - 2].stage = "mw" /\ calls[n - 2].idx = 1
     /\ DOMAIN calls[n - 2].value = {"a"}
     /\ calls[n - 1].stage = "mw" /\ calls[n - 1].idx = 2
     /\ "a" \in DOMAIN calls[n - 1].ctx
     /\ "b" \notin DOMAIN calls[n - 1].ctx
     /\ DOMAIN calls[n - 1].value = {"b"}
     /\ calls[n].stage = "handler"
     /\ {"a", "b"} \subseteq DOMAIN calls[n].ctx

\* C20 as stated: whatever the middleware steps return, the handler finds
\* under the base keys what was assembled before the chain ran: the
\* transport handle under req, and under body, query, cookies and each path
\* parameter the schema's output where a schema is declared and the
\* transport's value where none is.
C20_BaseKeysSurviveMiddleware ==
  \A h \in 1..Len(calls) :
    calls[h].stage = "handler"
    => LET c == calls[h].ctx IN
       /\ c["req"] = "req"
       /\ \A k \in Channels :
            c[k] = IF DeclaredInput(k) THEN ParsedFor(k) ELSE raw[k]
       /\ \A n \in ParamNames :
            c["params"][n] = IF DeclaredParam(n) THEN ParsedFor(n) ELSE raw.params[n]

\* ======================================================= the claims (SpecLogger)

\* The step invokes a validator, a middleware step or the handler.
Invokes == Len(calls') = Len(calls) + 1

\* C15: over any sequence of requests and logger changes, a step calls the
\* logger at most once, and only when a middleware step or the handler
\* raised a value that is no RapidError, or when writing the response raised
\* (the unexpected errors the catch blocks see); a step in which a params,
\* body, query or cookies validator reports a failure, in which a domain
\* error is raised, or in which a middleware step returns or the handler's
\* value is sent, calls no logger.
C15_LoggerOnlyForUnexpected ==
  [][ /\ Len(logged') > Len(logged)
         => /\ Len(logged') = Len(logged) + 1
            /\ Invokes
            /\ LET c == calls'[Len(calls')]
                   l == logged'[Len(logged')]
               IN  /\ c.stage \in {"mw", "handler"}
                   /\ \/ c.kind = "raise" /\ c.value.cls # "RapidError" /\ l.err = c.value
                      \/ c.kind = "wrote" /\ pc' = "escaped" /\ l.err.cls = "Error"
      /\ ( /\ Invokes
           /\ LET c == calls'[Len(calls')] IN
              \/ c.stage \in {"params", "inputs"}
              \/ c.kind \in {"success", "failure", "return"}
              \/ c.kind = "raise" /\ c.value.cls = "RapidError" )
         => logged' = logged
    ]_vars

\* C15 witness: under a replaced logger, a request passed its params and
\* body validators, its middleware step raised a domain error, and the
\* request is over with nothing logged.
C15_Witness ==
  /\ pc = "done"
  /\ lastSet.logger = "custom"
  /\ Len(calls) = 3
  /\ calls[1].stage = "params" /\ calls[2].stage = "inputs"
  /\ calls[3].kind = "raise" /\ calls[3].value.cls = "RapidError"
  /\ logged = <<>>

\* C16 as stated: the logger affects only what is logged. Whatever logger
\* is installed (one that raises included), a request that is over after a
\* middleware step or the handler raised an unexpected error has been
\* answered by the same response, the generic 500, as under any other logger.
C16_ResponseWhateverLogger ==
  ( /\ CallbackOver
    /\ calls # <<>>
    /\ RaisedAt(Len(calls))
    /\ calls[Len(calls)].value.cls # "RapidError" )
  => sent = <<[status |-> 500,
               body |-> [code |-> 500, name |-> "Internal Server Error",
                         message |-> "An error occurred while processing the request"]]>>

\* C17: the logger in the static field is always the one most recently
\* passed to setErrorLogger (the default before any call); in a step in
\* which a middleware step or the handler raises an unexpected error, the
\* record of the request's logger calls becomes exactly one call, of the
\* logger most recently installed before that step (so one installed while
\* the request was suspended), with the stage's message and the raised
\* value; and no request ever has more than one logger call.
C17_ReportedOnceToCurrentLogger ==
  [][ /\ currentLogger = lastSet.logger
      /\ Len(logged) <= 1
      /\ ( /\ Invokes
           /\ calls'[Len(calls')].stage \in {"mw", "handler"}
           /\ calls'[Len(calls')].kind = "raise"
           /\ calls'[Len(calls')].value.cls # "RapidError" )
         => LET c == calls'[Len(calls')] IN
            logged' =
                 <<[logger |-> lastSet.logger,
                    message |->
                      IF c.stage = "mw"
                        THEN "An unexpected middleware error occurred while processing the request"
                        ELSE "An error occurred while processing the request",
                    err |-> c.value]>>
    ]_vars

\* C17 witness: the logger was replaced while the request was suspended in
\* its handler; the handler then raised an unexpected error, which was
\* reported once, to the new logger.
C17_Witness ==
  /\ pc = "done"
  /\ lastSet = [logger |-> "custom", at |-> "handler"]
  /\ calls[Len(calls)].stage = "handler"
  /\ calls[Len(calls)].kind = "raise"
  /\ Len(logged) = 1
  /\ logged[1].logger = "custom"
  /\ logged[1].err = calls[Len(calls)].value

\* ==================================================== the claims (SpecConcurrent)

\* The two requests, each with its route and the invocations made for it.
InFlightRequests ==
  { [route |-> route, raw |-> raw, calls |-> calls],
    [route |-> other.route, raw |-> other.raw, calls |-> other.calls] }

\* The context a request's own pipeline assembled before its first
\* middleware step: the transport's values, replaced by the schema's output
\* where the request's route declares a schema.
OwnInitialContext(q, c) ==
  /\ DOMAIN c = BaseKeys
  /\ c["req"] = "req"
  /\ \A k \in Channels :
       c[k] = IF PosOf(q.route.validators, k) # 0 THEN ParsedFor(k) ELSE q.raw[k]
  /\ \A n \in ParamNames :
       c["params"][n] = IF q.route.paramsDeclared /\ PosOf(q.route.params, n) # 0
                          THEN ParsedFor(n) ELSE q.raw.params[n]

\* C18: with two requests in flight and their callbacks interleaved at every
\* await, the context each middleware step and handler is invoked with is
\* made of its own request only: the first step (or the handler when there
\* is none) sees the base keys with its own request's inputs, and every
\* later invocation sees exactly the context of the invocation before it in
\* the same request plus the keys that invocation returned, with the values
\* it returned. No key or value of the other request appears or replaces one.
C18_ContextsAreIsolated ==
  \A q \in InFlightRequests :
    \A i \in 1..Len(q.calls) :
      q.calls[i].stage \in {"mw", "handler"}
      => LET c == q.calls[i].ctx IN
         IF i > 1 /\ q.calls[i - 1].stage = "mw"
           THEN LET before == q.calls[i - 1].ctx
                    data == q.calls[i - 1].value
                IN  /\ DOMAIN c = DOMAIN before \cup DOMAIN data
                    /\ \A k \in DOMAIN c :
                         c[k] = IF k \in DOMAIN data THEN data[k] ELSE before[k]
           ELSE OwnInitialContext(q, c)

\* C18 witness: one request is over, its handler having seen the key a its
\* own middleware step added and not b, while the other request, on the
\* two-step route and with a different body, is suspended before its handler
\* with b in its context and not a.
C18_Witness ==
  /\ pc = "done"
  /\ route.nmw = 1
  /\ raw.body = "ok"
  /\ calls[Len(calls)].stage = "handler"
  /\ DOMAIN calls[Len(calls)].ctx = BaseKeys \cup {"a"}
  /\ calls[Len(calls)].ctx["body"] = "body:parsed"
  /\ other.pc = "handler"
  /\ other.route.nmw = 2
  /\ other.raw.body = "bad"
  /\ DOMAIN other.ctx = BaseKeys \cup {"b"}
  /\ other.ctx["body"] = "bad"

\* Plain objects of the shape of an error definition (name, code, message)
\* that are no RapidError instance.
PlainErrorObjects == {e \in OtherRaised : e.cls = "Object"}

\* C26: when a middleware step or the handler raises a plain object with
\* name, code and message that is no RapidError instance, the response is the
\* generic 500 and never carries the object's own code, name or message, and
\* the logger was called once, with that object.
C26_PlainObjectIsUnexpected ==
  \A i \in 1..Len(calls) :
    (RaisedAt(i) /\ calls[i].value \in PlainErrorObjects)
    => /\ Len(sent) = 1
       /\ sent[1].status = 500
       /\ sent[1].status # calls[i].value.code
       /\ sent[1].body = ToJSON(InternalError)
       /\ sent[1].body.name # calls[i].value.name
       /\ Len(logged) = 1
       /\ logged[1].err = calls[i].value
       /\ pc = "done"

\* C26 witness: the handler raised the plain object { name: "NOT_FOUND",
\* code: 404, message } and the caller got status 500.
C26_Witness ==
  /\ pc = "done"
  /\ Len(calls) > 0
  /\ calls[Len(calls)].stage = "handler"
  /\ calls[Len(calls)].kind = "raise"
  /\ calls[Len(calls)].value =
       [cls |-> "Object", name |-> "NOT_FOUND", code |-> 404, message |-> "User not found"]
  /\ Len(sent) = 1 /\ sent[1].status = 500
  /\ Len(logged) = 1

\* ================================================= the claims (SpecRoutes)

\* The request paths the claims range over, and the shorter ones that stay
\* among them under a prefix.
RequestPaths ==
  UNION {[1..n -> {"api", "widget", "42"}] : n \in 0..3}

ShortPaths == {q \in RequestPaths : Len(q) <= 2}

\* C9: a step subroute(prefix, child) on a parent leaves every other
\* router's layers, the child's among them, as they were (unprefixed); every
\* request the parent answered before is answered by the same callback; and
\* every request (method, q) the child answers with one of its routes is
\* answered by the parent at (method, prefix + q) with that same callback
\* (the transport taking the first match, a layer the parent had before the
\* mount keeps the requests it already answered), while the child goes on
\* answering it at q.
C9_SubroutePrefixes ==
  [][ (lastOp'.name = "subroute" /\ stack' # stack)
      => LET parent == lastOp'.router
             prefix == lastOp'.path
             child == lastOp'.target
         IN  /\ \A r \in Routers \ {parent} : stack'[r] = stack[r]
             /\ \A m \in Methods : \A q \in RequestPaths :
                  LET before == Dispatch(stack, parent, m, q) IN
                  before # "next" => Dispatch(stack', parent, m, q) = before
             /\ \A m \in Methods : \A q \in ShortPaths :
                  LET byChild == Dispatch(stack, child, m, q) IN
                  /\ Dispatch(stack', child, m, q) = byChild
                  /\ ( /\ byChild # "next"
                       /\ Dispatch(stack, parent, m, prefix \o q) = "next" )
                     => Dispatch(stack', parent, m, prefix \o q) = byChild ]_vars

\* C9 witness: user holds GET /:id, app has just mounted it under /api, and
\* app answers GET /api/42 with the callback user answers GET /42 with.
C9_Witness ==
  /\ lastOp = [name |-> "subroute", router |-> "app", path |-> <<"api">>, target |-> "user"]
  /\ \E i \in 1..Len(stack["user"]) :
       /\ stack["user"][i] = RouteLayer("get", <<":id">>, "cb1")
  /\ Dispatch(stack, "user", "get", <<"42">>) = "cb1"
  /\ Dispatch(stack, "app", "get", <<"api", "42">>) = "cb1"
  /\ Dispatch(stack, "app", "get", <<"42">>) = "next"

\* The bindings of router r: its own routes, and the bindings of each router
\* mounted on it under the mount's prefix.
RECURSIVE Bindings(_, _)
Bindings(st, r) ==
  UNION { IF st[r][i].kind = "route"
            THEN {[method |-> st[r][i].method, path |-> st[r][i].path,
                   target |-> st[r][i].target]}
            ELSE {[method |-> b.method, path |-> st[r][i].path \o b.path,
                   target |-> b.target] : b \in Bindings(st, st[r][i].target)}
          : i \in 1..Len(st[r]) }

\* C21: no router holds two entries, of its own or through its mounts, for
\* the same method and effective path.
C21_NoDuplicateBinding ==
  \A r \in Routers : \A a, b \in Bindings(stack, r) :
    (a.method = b.method /\ a.path = b.path) => a.target = b.target

\* ================================================= the claims (SpecErrors)

\* The keys of a declaration object.
KeysOf(errors) == {errors[i].key : i \in 1..Len(errors)}

\* C30: the map defineErrors returns has exactly the keys of its argument,
\* and the entry of each key k has the name k, the code that is the first
\* element of the argument's entry, the message that is its second element,
\* and no cause.
C30_DefineErrorsResult ==
  defs.returned
  => /\ DOMAIN defs.res = KeysOf(defs.errors)
     /\ \A i \in 1..Len(defs.errors) :
          LET k == defs.errors[i].key
              entry == defs.res[k]
          IN  /\ entry.name = k
              /\ entry.code = defs.errors[i].value[1]
              /\ entry.message = defs.errors[i].value[2]
              /\ "cause" \notin DOMAIN entry
              /\ DOMAIN entry = {"name", "code", "message"}

\* C30 witness: defineErrors({ NOT_FOUND: [404, "Not found"], CONFLICT: [409,
\* "Already there"] }) has returned its two entries.
C30_Witness ==
  /\ defs.returned
  /\ defs.errors = <<[key |-> "NOT_FOUND", value |-> <<404, "Not found">>],
                     [key |-> "CONFLICT", value |-> <<409, "Already there">>]>>
  /\ defs.res["CONFLICT"] = [name |-> "CONFLICT", code |-> 409, message |-> "Already there"]
  /\ defs.res["NOT_FOUND"].code = 404

\* ================================================ the claims (SpecCombine)

\* The position of the first function of fns that raises (0: none does).
FirstRaising(fns) ==
  IF \E k \in 1..Len(fns) : fns[k].out = "raise"
    THEN CHOOSE k \in 1..Len(fns) :
           fns[k].out = "raise" /\ \A l \in 1..(k - 1) : fns[l].out # "raise"
    ELSE 0

\* C27: once the loop over the consecutive steps m1..mn and the loop over
\* the one step middleware(m1, ..., mn) are both through, they have invoked
\* the same functions in the same order, each with the same context, they
\* leave the same context, the same response and the same logger calls, and
\* both go on to the handler or both do not; when mk is the first to raise,
\* m1..mk were invoked and no other, and neither goes on to the handler;
\* and middleware(m) is m.
C27_CombinedIsConsecutive ==
  /\ (combo.steps.pc # "mw" /\ combo.one.pc # "mw")
     => LET k == FirstRaising(combo.fns) IN
        /\ combo.one.seen = combo.steps.seen
        /\ combo.one.ctx = combo.steps.ctx
        /\ combo.one.sent = combo.steps.sent
        /\ combo.one.logged = combo.steps.logged
        /\ combo.one.pc = combo.steps.pc
        /\ \A l \in 1..Len(combo.one.seen) : combo.one.seen[l].fn = combo.fns[l]
        /\ IF k = 0
             THEN /\ Len(combo.one.seen) = Len(combo.fns)
                  /\ combo.one.pc = "handler"
                  /\ combo.one.sent = <<>>
             ELSE /\ Len(combo.one.seen) = k
                  /\ combo.one.pc = "done"
                  /\ Len(combo.one.sent) = 1
  /\ Len(combo.fns) = 1 => combo.one.mws = combo.fns

\* C27 witness: middleware(m1, m2) where m1 returns { a: "x" } and m2
\* returns { a: "y" }: both runs are at the handler and the context holds
\* a = "y", m2 having seen a = "x".
C27_Witness ==
  /\ Len(combo.fns) = 2
  /\ combo.fns[1].value = [a |-> "x"]
  /\ combo.fns[2].value = [a |-> "y"]
  /\ combo.one.mws[1].kind = "combined"
  /\ combo.one.pc = "handler"
  /\ combo.steps.pc = "handler"
  /\ combo.one.ctx["a"] = "y"
  /\ combo.one.seen[2].ctx["a"] = "x"

\* =================================================== the claims (SpecLive)

\* The transport has invoked the route callback for a request.
Invoked == pc \notin {"idle", "ready"}

\* C28: a request the callback was invoked for eventually has a response,
\* and never more than one (every validator, middleware step and handler
\* returning or raising, and the logger returning).
C28_EventuallyOneResponse ==
  /\ Invoked ~> (Len(sent) = 1)
  /\ [](Len(sent) <= 1)

\* ================================================ the claims (SpecRebuild)

\* The entries of the invocation log of one stage.
CallsOf(stage) == {i \in 1..Len(calls) : calls[i].stage = stage}

\* C22: what the callback of a registered route applies to a request is what
\* the builder declared when the route was registered: it validates no
\* channel that had no schema then, runs no middleware function that was not
\* in the chain then, and the handler is called only after every function of
\* that chain has run and every channel declared then has been validated.
C22_RegisteredRouteIsImmutable ==
  (registered # <<>> /\ pc # "idle")
  => LET d == registered[1].declared IN
     /\ \A i \in CallsOf("validate") : d[SchemaField(calls[i].key)] # Undefined
     /\ \A i \in CallsOf("mw") : calls[i].idx <= Len(d.middleware)
     /\ CallsOf("handler") # {}
        => /\ Cardinality(CallsOf("mw")) = Len(d.middleware)
           /\ \A n \in 1..Len(BuilderOrder) :
                d[SchemaField(BuilderOrder[n])] # Undefined
                => \E i \in CallsOf("validate") : calls[i].key = BuilderOrder[n]

\* ================================================ the claims (SpecBuilder)

\* C23: when the handler of a RouteBuilder route has returned a value (or a
\* promise of one) without writing to the response, the response is that
\* value, with the default status.
C23_BuilderHandlerValueIsBody ==
  \A i \in CallsOf("handler") :
    calls[i].kind = "return"
    => sent = <<[status |-> 200, body |-> Await(calls[i].value)]>>

\* C24: when a middleware function or the handler of a RouteBuilder route
\* has raised, or the promise it returned has rejected, the request has one
\* response: with the code of the ApiError raised, or the 500 for any other
\* value.
C24_BuilderErrorIsAnswered ==
  \A i \in CallsOf("mw") \cup CallsOf("handler") :
    calls[i].kind \in {"raise", "reject"}
    => /\ Len(sent) = 1
       /\ sent[1].status = IF calls[i].value.cls = "ApiError"
                             THEN calls[i].value.code ELSE 500

\* C25: the handler of a RouteBuilder route is called with null for each
\* channel the builder holds no schema for, and with the schema's parsed
\* output for each channel it holds one for.
C25_NullOrParsed ==
  \A i \in CallsOf("handler") :
    \A channel \in {"params", "body", "query", "cookies"} :
      LET schema == builder[SchemaField(channel)]
          arg == calls[i].ctx
      IN  IF schema = Undefined
            THEN arg[channel] = "null"
            ELSE /\ safeParse(schema, raw[channel]).success
                 /\ arg[channel] = safeParse(schema, raw[channel]).data
                 /\ arg[channel] # raw[channel]

\* C25 witness: the handler was called with the parsed body and with null for
\* the query, for which no schema is declared and which the request carried.
C25_Witness ==
  /\ pc = "done"
  /\ CallsOf("handler") # {}
  /\ builder.bodySchema # Undefined
  /\ builder.querySchema = Undefined
  /\ raw.query = "bad"
  /\ calls[Len(calls)].ctx["body"] = "body:parsed"
  /\ calls[Len(calls)].ctx["query"] = "null"
  /\ calls[Len(calls)].ctx["params"] = "null"

\* The order the claim gives the checks.
ClaimedOrder == <<"params", "body", "query", "cookies">>

\* C29: for a request the callback was invoked for, the channels the
\* builder holds a schema for are checked in the order params, body, query,
\* cookies; if one of them is invalid, the response is the 400 BAD_REQUEST
\* for the first invalid one in that order, with its cause, no channel after
\* it was checked and no middleware function and no handler was invoked; if
\* none is invalid, every check succeeded.
C29_FixedOrderFirstFailure ==
  (registered # <<>> /\ pc # "idle")
  => LET failing == {n \in 1..4 :
                       /\ builder[SchemaField(ClaimedOrder[n])] # Undefined
                       /\ raw[ClaimedOrder[n]] = "bad"}
     IN  IF failing = {}
           THEN \A i \in CallsOf("validate") : calls[i].kind = "success"
           ELSE LET f == CHOOSE n \in failing : \A m \in failing : n <= m
                    schema == builder[SchemaField(ClaimedOrder[f])]
                IN  /\ pc = "done"
                    /\ Len(sent) = 1
                    /\ sent[1].status = 400
                    /\ sent[1].body.code = 400
                    /\ sent[1].body.name = "BAD_REQUEST"
                    /\ sent[1].body.cause = safeParse(schema, "bad").flattened
                    /\ \A i \in 1..Len(calls) :
                         /\ calls[i].stage = "validate"
                         /\ \E n \in 1..f : calls[i].key = ClaimedOrder[n]
                    /\ calls[Len(calls)].key = ClaimedOrder[f]
                    /\ calls[Len(calls)].kind = "failure"

\* C29 witness: params and body are both declared and both invalid; the
\* response is the 400 of params and the body was not checked.
C29_Witness ==
  /\ pc = "done"
  /\ builder.paramSchema # Undefined
  /\ builder.bodySchema # Undefined
  /\ raw.params = "bad"
  /\ raw.body = "bad"
  /\ Len(calls) = 1
  /\ calls[1].key = "params"
  /\ Len(sent) = 1
  /\ sent[1].status = 400
  /\ sent[1].body.name = "BAD_REQUEST"
  /\ sent[1].body.message = "Invalid Parameters"

====
